---- MODULE Spec2Model ----
(***************************************************************************)
(* A model of the two agents of the repository:                            *)
(*   - BaseAgent    (src/BaseAgent.py): three-headed DQN agent, with the   *)
(*     optimizer (TD targets, loss, target-network sync) inline;           *)
(*   - CompassAgent (src/nico/assets/agents/BaseAgent.py): compass agent   *)
(*     with reward shaping and an episode state machine.                   *)
(* Real numbers are fixed-point integers: values, rewards and distances in *)
(* units of 1/One, probabilities (epsilon) in units of 1/EpsOne.           *)
(***************************************************************************)
EXTENDS Integers, Sequences, FiniteSets, TLC

\* ------------------------------------------------------------------ bounds
MaxSteps == 2         \* calls of BaseAgent.step
MaxTimesteps == 3     \* calls of CompassAgent.policy
MaxEpisodes == 1      \* calls of BaseAgent.reset
MaxUpdates == 1       \* value of update_cnt up to which the optimizer is called
MaxBatch == 2         \* batch size
ShapingSteps == 4     \* calls of CompassAgent.policy when reward shaping is explored
EpisodeSteps == 4     \* calls of CompassAgent.policy when whole episodes are explored

\* ------------------------------------------------------- program constants
FIRST == 0
MID == 1
LAST == 2
GoalBonus == 100
MoveStep == 4
XMax == 83
YMax == 63

One == 10 * 10
EpsOne == One * One

\* BaseAgent.__init__: eps_start = 1.0, eps_end = 0.05, eps_decay = 8000, gamma = 0.9
BaseEpsStart == EpsOne
BaseEpsEnd == EpsOne \div 20
BaseEpsDecay == 8 * 1000
BaseGamma == (9 * One) \div 10

SMART_ACTIONS == <<"no_op", "select_army", "Move_screen">>
SMART_ACTIONS_SIMPLE_NAVIGATION == <<"left", "up", "right", "down">>

\* parameter vectors a network can hold, screens an observation can show,
\* and the constructor arguments explored
Params == {0, 1}
Screens == {0, 1}
ScreenDims == {2}
TargetUpdatePeriods == {2}

\* ------------------------------------------------------------ pure helpers
RECURSIVE SumSeq(_)
SumSeq(s) == IF s = <<>> THEN 0 ELSE Head(s) + SumSeq(Tail(s))

RECURSIVE MaxSeq(_)
MaxSeq(s) == IF Len(s) = 1 THEN s[1]
             ELSE LET m == MaxSeq(Tail(s)) IN IF s[1] >= m THEN s[1] ELSE m

\* np.argmax: index (0-based) of the first maximal entry
Argmax(s) == (CHOOSE i \in 1..Len(s) :
                 /\ s[i] = MaxSeq(s)
                 /\ \A j \in 1..(i-1) : s[j] # s[i]) - 1

\* np.exp(-1. * n / d) in units of 1/EpsOne: the alternating series
\* sum_k (-n/d)^k / k!, each term computed from the one before
RECURSIVE ExpSeries(_, _, _, _)
ExpSeries(term, k, n, d) ==
    IF term = 0 THEN 0
    ELSE LET next == (term * n) \div (d * k)
         IN  term - ExpSeries(next, k + 1, n, d)

ExpNeg(n, d) == ExpSeries(EpsOne, 1, n, d)

\* math.hypot(dx, dy) in units of 1/One (rounded down)
RECURSIVE ISqrtBits(_, _, _)
ISqrtBits(n, r, b) ==
    IF b = 0 THEN r
    ELSE IF (r + b) * (r + b) <= n THEN ISqrtBits(n, r + b, b \div 2)
         ELSE ISqrtBits(n, r, b \div 2)

ISqrt(n) == ISqrtBits(n, 0, 16384)

Hypot(dx, dy) == ISqrt((dx * dx + dy * dy) * One * One)

\* ---------------------------------------------------------------- state
VARIABLES
    agent,                \* which class was constructed
    err,                  \* exception that left the last handler ("none" if none)
    op,                   \* the handler called last
    obs,                  \* the observation handed to the last step/policy call
    env_phase,            \* environment: "reset" (next observation is FIRST) or "running"
    steps, episodes, reward,                     \* pysc2 base_agent.BaseAgent
    steps_done, epsilon, eps_start, eps_end, eps_decay, choice,
    decisions,            \* number of choose_action calls so far
    gamma, timesteps, target_update_period, screen_dim,
    net, target_net,      \* online and target parameters
    net_history,          \* every value the online parameters have had
    update_cnt, update_status,
    ret,                  \* BaseAgent.step: the value returned last
    opt,                  \* BaseAgent.optimize: batch, gathered values, targets, loss
    \* CompassAgent
    supervised_episodes, batch_size, size_replaybuffer,
    available_actions, feature_screen, feature_screen2, state,
    beacon_center, marine_center, distance,
    action, action_idx,
    env_reward, feature_screen_next, feature_screen_next2,
    beacon_center_next, marine_center_next, distance_next,
    reward_shaped, next_state,
    memory,               \* DQN.memory, oldest transition first
    pushed                \* every transition handed to DQN.memory.push, in order

pyscVars == <<steps, episodes, reward>>
epsVars == <<steps_done, epsilon, choice, decisions>>
cfgVars == <<agent, eps_start, eps_end, eps_decay, gamma, target_update_period, screen_dim,
             supervised_episodes, batch_size, size_replaybuffer>>
netVars == <<net, target_net, net_history>>
baseVars == <<update_cnt, update_status, ret, opt>>

timestepVars == <<available_actions, feature_screen, feature_screen2, state>>
distanceVars == <<beacon_center, marine_center, distance>>
actionVars == <<action, action_idx>>
nextVars == <<env_reward, feature_screen_next, feature_screen_next2>>
shapingVars == <<beacon_center_next, marine_center_next, distance_next>>
storeVars == <<reward_shaped, next_state, memory, pushed>>
compassVars == <<timestepVars, distanceVars, actionVars, nextVars, shapingVars, storeVars>>

vars == <<err, op, obs, env_phase, timesteps, pyscVars, epsVars, cfgVars, netVars, baseVars,
          compassVars>>

\* ------------------------------------------------- networks (AtariNet.DQN)
\* The network is opaque: a fixed function of its parameters and its input,
\* one value vector per head (1 = action, 2 = x, 3 = y).
HeadSize(h) == IF h = 1 THEN Len(SMART_ACTIONS) ELSE screen_dim

QValue(p, s, h, i) == ((((p + 1) * (i + h + 1) + s * (i + 1) + h) % 5) - 2) * One

Forward(p, s) == [h \in 1..3 |-> [i \in 1..HeadSize(h) |-> QValue(p, s, h, i - 1)]]

\* ------------------------------------------------------------ observations
NoOp == [fn |-> "no_op", args |-> <<>>]
SelectArmy == [fn |-> "select_army", args |-> <<>>]
MoveScreen(x, y) == [fn |-> "Move_screen", args |-> <<x, y>>]
None == [fn |-> "None", args |-> <<>>]

AvailableActions == {{"no_op", "select_army"}, {"no_op", "select_army", "Move_screen"}}

\* what the environment can hand to BaseAgent.step: no reward on the first
\* observation of an episode; Move_screen is offered once the army is selected
BaseObservations ==
    {o \in [step_type : {FIRST, MID, LAST}, reward : {0, 1},
            available_actions : AvailableActions, screen : Screens] :
        /\ (o.step_type = FIRST) = (o.reward = 0)
        /\ ("Move_screen" \in o.available_actions) = (o.screen = 1)}

NoObservation ==
    [step_type |-> LAST, reward |-> 0, available_actions |-> {"no_op"}, screen |-> 0]

\* the environment hands out FIRST, then MID until LAST, then FIRST again
NextStepTypes == IF env_phase = "reset" THEN {FIRST} ELSE {MID, LAST}

PhaseAfter(o) == IF o.step_type = LAST THEN "reset" ELSE "running"

\* ------------------------------------------------------- exploration policy
Choices(eps) == {c \in {"random", "greedy"} :
                    IF c = "random" THEN eps > 0 ELSE eps < EpsOne}

\* variant: epsilon computed from the steps_done that follows the call
epsilon_greedy_stale ==
    /\ epsilon' = eps_end + ((eps_start - eps_end) * ExpNeg(steps_done + 1, eps_decay)) \div EpsOne
    /\ steps_done' = steps_done + 1
    /\ choice' \in Choices(epsilon')

\* variant: a schedule that climbs from eps_end
epsilon_greedy_rising ==
    /\ epsilon' = eps_end + ((eps_start - eps_end) * (EpsOne - ExpNeg(steps_done, eps_decay))) \div EpsOne
    /\ steps_done' = steps_done + 1
    /\ choice' \in Choices(epsilon')

epsilon_greedy ==
    /\ epsilon' = eps_end + ((eps_start - eps_end) * ExpNeg(steps_done, eps_decay)) \div EpsOne
    /\ steps_done' = steps_done + 1
    /\ choice' \in Choices(epsilon')

\* ---------------------------------------------------------------- BaseAgent
get_action(o, fn, x, y) ==
    IF fn \in o.available_actions
    THEN CASE fn = "Move_screen" -> MoveScreen(x, y)
           [] fn = "select_army" -> SelectArmy
           [] fn = "no_op" -> NoOp
           [] OTHER -> None
    ELSE NoOp

choose_action(o) ==
    /\ epsilon_greedy
    /\ decisions' = decisions + 1
    /\ IF choice' = "random"
       THEN \E a \in 0..(Len(SMART_ACTIONS) - 1), x \in 0..(screen_dim - 1), y \in 0..(screen_dim - 1) :
               ret' = [action |-> <<get_action(o, SMART_ACTIONS[a + 1], x, y)>>,
                       action_idx |-> a, x_coord |-> x, y_coord |-> y]
       ELSE LET q == Forward(net, o.screen)
                a == Argmax(q[1])
                x == Argmax(q[2])
                y == Argmax(q[3])
            IN  ret' = [action |-> <<get_action(o, SMART_ACTIONS[a + 1], x, y)>>,
                        action_idx |-> a, x_coord |-> x, y_coord |-> y]

step(o) ==
    /\ agent = "BaseAgent"
    /\ err = "none"
    /\ steps < MaxSteps
    /\ o.step_type \in NextStepTypes
    /\ steps' = steps + 1
    /\ reward' = reward + o.reward
    /\ timesteps' = timesteps + 1
    /\ choose_action(o)
    /\ op' = "step"
    /\ obs' = o
    /\ env_phase' = PhaseAfter(o)
    /\ UNCHANGED <<err, episodes, cfgVars, netVars, update_cnt, update_status, opt,
                   compassVars>>

\* variant: a reset that starts the exploration schedule anew as well
reset_forgetting ==
    /\ agent = "BaseAgent"
    /\ err = "none"
    /\ episodes < MaxEpisodes
    /\ episodes' = episodes + 1
    /\ timesteps' = 0
    /\ update_cnt' = 0
    /\ steps_done' = 0
    /\ op' = "reset"
    /\ UNCHANGED <<err, obs, env_phase, steps, reward, epsilon, choice, decisions, cfgVars,
                   netVars, update_status, ret, opt, compassVars>>

reset ==
    /\ agent = "BaseAgent"
    /\ err = "none"
    /\ episodes < MaxEpisodes
    /\ episodes' = episodes + 1
    /\ timesteps' = 0
    /\ update_cnt' = 0
    /\ op' = "reset"
    /\ UNCHANGED <<err, obs, env_phase, steps, reward, epsVars, cfgVars, netVars,
                   update_status, ret, opt, compassVars>>

\* variant: the copy made on the cadence, and not counted
update_target_net_uncounted(online) ==
    IF (steps % target_update_period) = 0
    THEN /\ target_net' = online
         /\ update_cnt' = update_cnt
         /\ update_status' = "Weights updated!"
    ELSE /\ target_net' = target_net
         /\ update_cnt' = update_cnt
         /\ update_status' = "None"

\* variant: the copy made whatever the step counter is
update_target_net_always(online) ==
    /\ target_net' = online
    /\ update_cnt' = update_cnt + 1
    /\ update_status' = "Weights updated!"

update_target_net(online) ==
    IF (steps % target_update_period) = 0
    THEN /\ target_net' = online
         /\ update_cnt' = update_cnt + 1
         /\ update_status' = "Weights updated!"
    ELSE /\ target_net' = target_net
         /\ update_cnt' = update_cnt
         /\ update_status' = "None"

call_update_target_net ==
    /\ agent = "BaseAgent"
    /\ err = "none"
    /\ update_cnt < MaxUpdates
    /\ update_target_net(net)
    /\ op' = "update_target_net"
    /\ UNCHANGED <<err, obs, env_phase, timesteps, pyscVars, epsVars, cfgVars,
                   net, net_history, ret, opt, compassVars>>

\* ------------------------------------------------------ BaseAgent.optimize
Rewards == {0, One, One * One}

Transitions ==
    [state : Screens, action : 0..(Len(SMART_ACTIONS) - 1),
     x_coord : 0..(screen_dim - 1), y_coord : 0..(screen_dim - 1),
     reward : Rewards, step_type : {FIRST, MID, LAST}, next_state : Screens]

\* the transitions that batches of more than one element are built from
PairTransitions ==
    {t \in Transitions : /\ t.state = 0 /\ t.next_state = 1
                         /\ t.x_coord = 0 /\ t.y_coord = screen_dim - 1
                         /\ t.action # 1
                         /\ t.reward # 0 /\ t.step_type # FIRST}

RECURSIVE SeqsOf(_, _)
SeqsOf(S, n) == IF n = 0 THEN {<<>>}
                ELSE {Append(q, t) : q \in SeqsOf(S, n - 1), t \in S}

Batches == {<<t>> : t \in Transitions}
             \cup UNION {SeqsOf(PairTransitions, n) : n \in 2..MaxBatch}

\* the batches the agent's life cycle is explored with
ReplayBatches ==
    {<<[state |-> 0, action |-> 0, x_coord |-> 0, y_coord |-> screen_dim - 1,
        reward |-> One, step_type |-> MID, next_state |-> 1],
       [state |-> 1, action |-> 2, x_coord |-> screen_dim - 1, y_coord |-> 0,
        reward |-> One * One, step_type |-> LAST, next_state |-> 0]>>}

\* self.net(state_batch): one triple of value vectors per batch element
q_values(batch) == [i \in 1..Len(batch) |-> Forward(net, batch[i].state)]

\* variant: the next-state values taken from the online network
next_q_values_online(batch) == [i \in 1..Len(batch) |-> Forward(net, batch[i].next_state)]

\* self.target_net(next_state_batch)
next_q_values(batch) == [i \in 1..Len(batch) |-> Forward(target_net, batch[i].next_state)]

\* variant: no override for step_type == 2
td_target_unmasked(next_values, reward_batch, step_type_batch, g) ==
    [i \in 1..Len(reward_batch) |-> ((next_values[i] * g) \div One) + reward_batch[i]]

\* (next * gamma) + reward, then overwritten by the reward where step_type == 2
td_target(next_values, reward_batch, step_type_batch, g) ==
    [i \in 1..Len(reward_batch) |->
        IF step_type_batch[i] = LAST THEN reward_batch[i]
        ELSE ((next_values[i] * g) \div One) + reward_batch[i]]

\* variant: a target of shape [n] against an input of shape [n, 1], every
\* predicted value paired with every target
mse_loss_broadcast(input, target) ==
    SumSeq([k \in 1..(Len(input) * Len(target)) |->
               LET a == input[((k - 1) \div Len(target)) + 1]
                   b == target[((k - 1) % Len(target)) + 1]
               IN  (a - b) * (a - b)])
        \div (Len(input) * Len(target))

\* F.mse_loss: mean of the squared element-wise differences (units of 1/One^2)
mse_loss(input, target) ==
    SumSeq([k \in 1..Len(input) |-> (input[k] - target[k]) * (input[k] - target[k])])
        \div Len(input)

optimize(batch) ==
    LET B == Len(batch)
        reward_batch == [i \in 1..B |-> batch[i].reward]
        step_type_batch == [i \in 1..B |-> batch[i].step_type]
        q == q_values(batch)
        state_action_values == [i \in 1..B |-> q[i][1][batch[i].action + 1]]
        x_q_values == [i \in 1..B |-> q[i][2][batch[i].x_coord + 1]]
        y_q_values == [i \in 1..B |-> q[i][3][batch[i].y_coord + 1]]
        nq == next_q_values(batch)
        next_state_values == [i \in 1..B |-> MaxSeq(nq[i][1])]
        next_x_q_values == [i \in 1..B |-> MaxSeq(nq[i][2])]
        next_y_q_values == [i \in 1..B |-> MaxSeq(nq[i][3])]
        td_target_actions == td_target(next_state_values, reward_batch, step_type_batch, gamma)
        td_target_x_coord == td_target(next_x_q_values, reward_batch, step_type_batch, gamma)
        td_target_y_coord == td_target(next_y_q_values, reward_batch, step_type_batch, gamma)
        q_values_cat == state_action_values \o x_q_values \o y_q_values
        td_target_cat == td_target_actions \o td_target_x_coord \o td_target_y_coord
    IN  /\ agent = "BaseAgent"
        /\ err = "none"
        /\ update_cnt < MaxUpdates
        /\ opt' = [batch |-> batch, q_values_cat |-> q_values_cat,
                   td_target_cat |-> td_target_cat,
                   loss |-> mse_loss(q_values_cat, td_target_cat)]
        /\ \E p \in Params : net' = p                 \* self.optimizer.step()
        /\ net_history' = net_history \cup {net'}
        /\ update_target_net(net')
        /\ op' = "optimize"
        /\ UNCHANGED <<err, obs, env_phase, timesteps, pyscVars, epsVars, cfgVars, ret,
                       compassVars>>

\* ------------------------------------------------------------- CompassAgent
NaN == <<>>                 \* the scalar nan that np.mean gives for an empty list
NoAttr == 0 - 1             \* an attribute that was never assigned
Reset == [fn |-> "reset", args |-> <<>>]
NoAction == [fn |-> "undefined", args |-> <<>>]

RECURSIVE SumCoord(_, _)
SumCoord(mask, k) ==
    IF mask = {} THEN 0
    ELSE LET p == CHOOSE q \in mask : TRUE IN p[k] + SumCoord(mask \ {p}, k)

\* numpy's round: to the nearest integer, halves to the even one
RoundHalfEven(num, den) ==
    LET q == num \div den
        r == num % den
    IN  IF 2 * r < den THEN q
        ELSE IF 2 * r > den THEN q + 1
        ELSE IF q % 2 = 0 THEN q ELSE q + 1

\* np.mean(self._xy_locs(mask), axis=0).round(); a mask is the set of its (x, y) locations
MeanRound(mask) ==
    IF mask = {} THEN NaN
    ELSE <<RoundHalfEven(SumCoord(mask, 1), Cardinality(mask)),
           RoundHalfEven(SumCoord(mask, 2), Cardinality(mask))>>

\* The result of calculate_distance, or the exception that leaves it: indexing the
\* scalar nan of an empty beacon mean raises IndexError.
calculate_distance(screen_player_relative, screen_selected) ==
    LET mean_marine == MeanRound(screen_selected)
        beacon == MeanRound(screen_player_relative)
        marine == IF mean_marine = NaN THEN beacon ELSE mean_marine
    IN  IF beacon = NaN
        THEN [err |-> "IndexError", beacon_center |-> beacon, marine_center |-> marine,
              distance |-> NoAttr]
        ELSE [err |-> "none", beacon_center |-> beacon, marine_center |-> marine,
              distance |-> Hypot(beacon[1] - marine[1], beacon[2] - marine[2])]

\* variant: the difference taken the other way round
reward_shaping_gain(dist, dist_next) ==
    IF dist = 0 THEN GoalBonus * One ELSE dist_next - dist

\* reward_shaped = distance - distance_next, replaced by 100 if distance == 0.0
reward_shaping(dist, dist_next) ==
    IF dist = 0 THEN GoalBonus * One ELSE dist - dist_next

translate_to_PYSC2_action(a, center, available) ==
    IF "Move_screen" \in available
    THEN CASE a = "left" /\ ~(center[1] <= 0) -> MoveScreen(center[1] - MoveStep, center[2])
           [] a = "up" /\ ~(center[2] <= 0) -> MoveScreen(center[1], center[2] - MoveStep)
           [] a = "right" /\ ~(center[1] >= XMax) -> MoveScreen(center[1] + MoveStep, center[2])
           [] a = "down" /\ ~(center[2] >= YMax) -> MoveScreen(center[1], center[2] + MoveStep)
           [] OTHER -> None
    ELSE NoOp

\* The index supervised_action settles on (NoAttr: self.action_idx is read before
\* it was ever assigned, an AttributeError).
supervised_idx(marine, beacon, last_action_idx, action_choice) ==
    LET rx == marine[1] - beacon[1]
        ry == marine[2] - beacon[2]
        right_to_beacon == rx > 0
        left_to_beacon == rx < 0
        vertically_aligned == rx = 0
        below_beacon == ry > 0
        above_beacon == ry < 0
        horizontally_aligned == ry = 0
        left == 0
        up == 1
        right == 2
        down == 3
    IN  CASE horizontally_aligned /\ vertically_aligned -> last_action_idx
          [] horizontally_aligned /\ right_to_beacon -> left
          [] below_beacon /\ vertically_aligned -> up
          [] horizontally_aligned /\ left_to_beacon -> right
          [] above_beacon /\ vertically_aligned -> down
          [] above_beacon /\ left_to_beacon -> IF action_choice THEN right ELSE down
          [] above_beacon /\ right_to_beacon -> IF action_choice THEN left ELSE down
          [] below_beacon /\ right_to_beacon -> IF action_choice THEN left ELSE up
          [] below_beacon /\ left_to_beacon -> IF action_choice THEN right ELSE up

supervised_action(marine, beacon, available) ==
    \E action_choice \in BOOLEAN :
        LET idx == supervised_idx(marine, beacon, action_idx, action_choice)
        IN  IF idx = NoAttr
            THEN /\ err' = "AttributeError"
                 /\ UNCHANGED actionVars
            ELSE /\ err' = "none"
                 /\ action' = <<translate_to_PYSC2_action(
                                   SMART_ACTIONS_SIMPLE_NAVIGATION[idx + 1], marine, available)>>
                 /\ action_idx' = idx

\* the greedy branch uses torch, which the module never imports: NameError
Compass_choose_action(marine, available) ==
    /\ epsilon_greedy
    /\ decisions' = decisions + 1
    /\ IF choice' = "random"
       THEN \E a \in 0..(Len(SMART_ACTIONS_SIMPLE_NAVIGATION) - 1) :
               /\ action' = <<translate_to_PYSC2_action(
                                 SMART_ACTIONS_SIMPLE_NAVIGATION[a + 1], marine, available)>>
               /\ action_idx' = a
               /\ err' = "none"
       ELSE /\ err' = "NameError"
            /\ UNCHANGED actionVars

\* CompassAgent.reset: the base class counts the episode, timesteps starts anew
Compass_reset ==
    /\ episodes' = episodes + 1
    /\ timesteps' = 0

\* a reset called from outside policy
call_Compass_reset ==
    /\ agent = "CompassAgent"
    /\ err = "none"
    /\ episodes < MaxEpisodes
    /\ Compass_reset
    /\ op' = "reset"
    /\ UNCHANGED <<err, obs, env_phase, steps, reward, epsVars, cfgVars, netVars, baseVars,
                   compassVars>>

\* variant: the weights transferred at the end of every episode
update_target_network_every ==
    /\ target_net' = net
    /\ Compass_reset

\* update_target_network, then reset
update_target_network ==
    /\ target_net' = IF episodes % target_update_period = 0 THEN net ELSE target_net
    /\ Compass_reset

policy(o) ==
    LET cd == calculate_distance(o.player_relative, o.selected)
    IN  /\ agent = "CompassAgent"
        /\ err = "none"
        /\ IF env_phase = "observed" THEN o = obs       \* the one store_transition saw
           ELSE o.step_type \in (IF env_phase = "reset" THEN {FIRST} ELSE {MID, LAST})
        \* prepare_timestep
        /\ steps' = steps + 1
        /\ reward' = reward + o.reward
        /\ available_actions' = o.available_actions
        /\ feature_screen' = o.player_relative
        /\ feature_screen2' = o.selected
        /\ state' = o.player_relative
        /\ IF cd.err # "none"
           THEN /\ err' = cd.err
                /\ timesteps' = timesteps + 1
                /\ UNCHANGED <<distanceVars, actionVars, epsVars, episodes, target_net>>
           ELSE /\ beacon_center' = cd.beacon_center
                /\ marine_center' = cd.marine_center
                /\ distance' = cd.distance
                /\ CASE o.step_type = FIRST ->
                          /\ action' = <<SelectArmy>>
                          /\ timesteps' = timesteps + 1
                          /\ UNCHANGED <<err, action_idx, epsVars, episodes, target_net>>
                     [] o.step_type = LAST ->
                          /\ update_target_network
                          /\ action' = <<Reset>>
                          /\ UNCHANGED <<err, action_idx, epsVars>>
                     [] OTHER ->
                          /\ timesteps' = timesteps + 1
                          /\ UNCHANGED <<episodes, target_net>>
                          /\ IF episodes < supervised_episodes
                             THEN /\ supervised_action(cd.marine_center, cd.beacon_center,
                                                    o.available_actions)
                                  /\ UNCHANGED epsVars
                             ELSE Compass_choose_action(cd.marine_center, o.available_actions)
        /\ op' = "policy"
        /\ obs' = o
        /\ env_phase' = IF o.step_type = LAST THEN "reset" ELSE "acted"
        /\ UNCHANGED <<cfgVars, net, net_history, baseVars, nextVars, shapingVars, storeVars>>

\* variant: a full buffer keeps what it has and drops the newcomer's predecessor
push_newest_out(mem, transition) ==
    IF Len(mem) >= size_replaybuffer
    THEN Append(SubSeq(mem, 1, Len(mem) - 1), transition)
    ELSE Append(mem, transition)

\* DQN.memory.push: append, dropping the oldest transition of a full buffer
push(mem, transition) ==
    IF Len(mem) >= size_replaybuffer THEN Append(Tail(mem), transition)
    ELSE Append(mem, transition)

store_transition(next_obs) ==
    LET cd == calculate_distance(next_obs.player_relative, next_obs.selected)
    IN  /\ agent = "CompassAgent"
        /\ err = "none"
        /\ env_phase = "acted"
        /\ next_obs.step_type \in {MID, LAST}
        /\ env_reward' = next_obs.reward
        /\ feature_screen_next' = next_obs.player_relative
        /\ feature_screen_next2' = next_obs.selected
        /\ IF cd.err # "none"
           THEN /\ err' = cd.err
                /\ UNCHANGED <<shapingVars, storeVars>>
           ELSE /\ beacon_center_next' = cd.beacon_center
                /\ marine_center_next' = cd.marine_center
                /\ distance_next' = cd.distance
                /\ reward_shaped' = reward_shaping(distance, cd.distance)
                /\ next_state' = next_obs.player_relative
                /\ IF action_idx = NoAttr
                   THEN /\ err' = "AttributeError"
                        /\ UNCHANGED <<memory, pushed>>
                   ELSE LET transition == [state |-> state, action_idx |-> action_idx,
                                           reward |-> reward_shaped',
                                           next_state |-> next_state']
                        IN  /\ err' = "none"
                            /\ memory' = push(memory, transition)
                            /\ pushed' = Append(pushed, transition)
        /\ op' = "store_transition"
        /\ obs' = next_obs
        /\ env_phase' = "observed"
        /\ UNCHANGED <<timesteps, pyscVars, epsVars, cfgVars, netVars, baseVars,
                       timestepVars, distanceVars, actionVars>>

\* DQN.optimize: one optimizer step on the online network, from a warm buffer
Compass_optimize ==
    /\ agent = "CompassAgent"
    /\ err = "none"
    /\ Len(memory) >= batch_size
    /\ \E p \in Params : net' = p
    /\ net_history' = net_history \cup {net'}
    /\ op' = "optimize"
    /\ UNCHANGED <<err, obs, env_phase, timesteps, pyscVars, epsVars, cfgVars, target_net,
                   baseVars, compassVars>>

\* ------------------------------------------------- CompassAgent observations
Beacon == {<<40, 30>>, <<41, 30>>, <<40, 31>>, <<41, 31>>}

MoveAvailable == {"no_op", "select_army", "Move_screen"}
MoveUnavailable == {"no_op", "select_army"}

\* an episode as the environment plays it: nothing selected on the first
\* observation; afterwards the marine is selected, on the beacon or away from it
CompassObservations ==
    {[step_type |-> FIRST, reward |-> 0, available_actions |-> MoveUnavailable,
      player_relative |-> Beacon, selected |-> {}]}
    \cup {[step_type |-> t, reward |-> r, available_actions |-> MoveAvailable,
           player_relative |-> Beacon, selected |-> m] :
             t \in {MID, LAST}, r \in {0}, m \in {{<<40, 30>>}, {<<2, 34>>, <<3, 34>>}}}

NoCompassObservation ==
    [step_type |-> LAST, reward |-> 0, available_actions |-> {"no_op"},
     player_relative |-> {}, selected |-> {}]

\* the screens reward shaping is explored with: the marine on the beacon, 3.0,
\* 5.0 and about 38 away from it, or not selected; the beacon there or not
ShapingObservations ==
    {[step_type |-> FIRST, reward |-> 0, available_actions |-> MoveUnavailable,
      player_relative |-> Beacon, selected |-> {}]}
    \cup {[step_type |-> t, reward |-> 0, available_actions |-> MoveAvailable,
           player_relative |-> b, selected |-> m] :
             t \in {MID, LAST}, b \in {Beacon, {}},
             m \in {{}, {<<40, 30>>}, {<<40, 33>>}, {<<43, 34>>}, {<<2, 34>>, <<3, 34>>}}}

\* the screens whole episodes are explored with: the marine 3.0 away
EpisodeObservations ==
    {[step_type |-> FIRST, reward |-> 0, available_actions |-> MoveUnavailable,
      player_relative |-> Beacon, selected |-> {}],
     [step_type |-> MID, reward |-> 0, available_actions |-> MoveAvailable,
      player_relative |-> Beacon, selected |-> {<<40, 33>>}],
     [step_type |-> LAST, reward |-> 0, available_actions |-> MoveAvailable,
      player_relative |-> Beacon, selected |-> {<<40, 33>>}]}

\* the agent files explored. Their epsilon files: a schedule that starts at its
\* eps_start, one that starts elsewhere, and one whose eps_start lies below its eps_end
AgentFiles ==
    {[SUPERVISED_EPISODES |-> 0, TARGET_UPDATE_PERIOD |-> 2, BATCH_SIZE |-> 1,
      REPLAY_SIZE |-> 2, GAMMA |-> BaseGamma,
      EPSILON_FILE |-> [EPSILON |-> EpsOne, EPS_START |-> EpsOne,
                        EPS_END |-> EpsOne \div 10, EPS_DECAY |-> 2]],
     [SUPERVISED_EPISODES |-> 1, TARGET_UPDATE_PERIOD |-> 2, BATCH_SIZE |-> 1,
      REPLAY_SIZE |-> 2, GAMMA |-> BaseGamma,
      EPSILON_FILE |-> [EPSILON |-> EpsOne \div 2, EPS_START |-> (8 * EpsOne) \div 10,
                        EPS_END |-> (2 * EpsOne) \div 10, EPS_DECAY |-> 1]],
     [SUPERVISED_EPISODES |-> 0, TARGET_UPDATE_PERIOD |-> 2, BATCH_SIZE |-> 1,
      REPLAY_SIZE |-> 2, GAMMA |-> BaseGamma,
      EPSILON_FILE |-> [EPSILON |-> EpsOne \div 2, EPS_START |-> (2 * EpsOne) \div 10,
                        EPS_END |-> (8 * EpsOne) \div 10, EPS_DECAY |-> 2]]}

Gammas == {0, One \div 2, BaseGamma, One}

\* ---------------------------------------------------------- specification
NoReturn == [action |-> <<None>>, action_idx |-> 0, x_coord |-> 0, y_coord |-> 0]
NoOptimize == [batch |-> <<>>, q_values_cat |-> <<>>, td_target_cat |-> <<>>, loss |-> 0]

CompassUnset ==
    /\ supervised_episodes = 0 /\ batch_size = 1 /\ size_replaybuffer = 1
    /\ available_actions = {} /\ feature_screen = {} /\ feature_screen2 = {} /\ state = {}
    /\ beacon_center = NaN /\ marine_center = NaN /\ distance = NoAttr
    /\ action = <<NoAction>> /\ action_idx = NoAttr
    /\ env_reward = 0 /\ feature_screen_next = {} /\ feature_screen_next2 = {}
    /\ beacon_center_next = NaN /\ marine_center_next = NaN /\ distance_next = NoAttr
    /\ reward_shaped = 0 /\ next_state = {}
    /\ memory = <<>>
    /\ pushed = <<>>

BaseConstructed(g) ==
    /\ agent = "BaseAgent"
    /\ net \in Params                       \* net = DQN()
    /\ target_net \in Params                \* target_net = DQN()
    /\ net_history = {net}
    /\ epsilon = EpsOne
    /\ eps_start = BaseEpsStart
    /\ eps_end = BaseEpsEnd
    /\ eps_decay = BaseEpsDecay
    /\ steps_done = 0
    /\ gamma = g
    /\ timesteps = 0
    /\ update_cnt = 0
    /\ target_update_period \in TargetUpdatePeriods
    /\ screen_dim \in ScreenDims
    /\ update_status = "None"
    /\ steps = 0 /\ episodes = 0 /\ reward = 0
    /\ choice = "None"
    /\ decisions = 0
    /\ ret = NoReturn
    /\ opt = NoOptimize
    /\ err = "none"
    /\ op = "__init__"
    /\ obs = NoObservation
    /\ env_phase = "reset"
    /\ CompassUnset

InitBase == BaseConstructed(BaseGamma)

InitCompass ==
    /\ agent = "CompassAgent"
    /\ \E agent_file \in AgentFiles :       \* unzip_hyperparameter_file
          /\ gamma = agent_file.GAMMA
          /\ batch_size = agent_file.BATCH_SIZE
          /\ target_update_period = agent_file.TARGET_UPDATE_PERIOD
          /\ size_replaybuffer = agent_file.REPLAY_SIZE
          /\ supervised_episodes = agent_file.SUPERVISED_EPISODES
          /\ epsilon = agent_file.EPSILON_FILE.EPSILON
          /\ eps_start = agent_file.EPSILON_FILE.EPS_START
          /\ eps_end = agent_file.EPSILON_FILE.EPS_END
          /\ eps_decay = agent_file.EPSILON_FILE.EPS_DECAY
    /\ screen_dim \in ScreenDims
    /\ steps_done = 0
    /\ timesteps = 0
    /\ choice = "None"
    /\ net \in Params                       \* DQN_module: both networks start equal
    /\ target_net = net
    /\ net_history = {net}
    /\ memory = <<>>
    /\ pushed = <<>>
    /\ steps = 0 /\ episodes = 0 /\ reward = 0
    /\ decisions = 0
    /\ update_cnt = 0 /\ update_status = "None" /\ ret = NoReturn /\ opt = NoOptimize
    /\ err = "none"
    /\ op = "__init__"
    /\ obs = NoCompassObservation
    /\ env_phase = "reset"
    /\ available_actions = {} /\ feature_screen = {} /\ feature_screen2 = {} /\ state = {}
    /\ beacon_center = NaN /\ marine_center = NaN /\ distance = NoAttr
    /\ action = <<NoAction>> /\ action_idx = NoAttr
    /\ env_reward = 0 /\ feature_screen_next = {} /\ feature_screen_next2 = {}
    /\ beacon_center_next = NaN /\ marine_center_next = NaN /\ distance_next = NoAttr
    /\ reward_shaped = 0 /\ next_state = {}

Init == InitBase \/ InitCompass

Next ==
    \/ \E o \in BaseObservations : step(o)
    \/ reset
    \/ call_update_target_net
    \/ \E b \in ReplayBatches : optimize(b)
    \/ \E o \in CompassObservations : steps < MaxTimesteps /\ policy(o)
    \/ \E o \in CompassObservations : store_transition(o)
    \/ Compass_optimize

Spec == Init /\ [][Next]_vars

\* optimize as a function of its batch, of the two networks and of gamma
InitTD == \E g \in Gammas : BaseConstructed(g)

NextTD == op = "__init__" /\ \E b \in Batches : optimize(b)

SpecTD == InitTD /\ [][NextTD]_vars

\* reward shaping as a function of the previous and the next observation
InitShaping == InitCompass /\ supervised_episodes = 1 /\ net = 0

NextShaping ==
    \/ \E o \in ShapingObservations : steps < ShapingSteps /\ policy(o)
    \/ \E o \in ShapingObservations : store_transition(o)

SpecShaping == InitShaping /\ [][NextShaping]_vars

\* whole episodes of either agent, with resets called from outside as well
EpisodeBaseObservations == {o \in BaseObservations : o.screen = 1}

InitEpisodes == InitBase \/ (InitCompass /\ eps_start = EpsOne /\ net = 0)

NextEpisodes ==
    \/ \E o \in EpisodeBaseObservations : step(o)
    \/ reset
    \/ call_update_target_net
    \/ \E b \in ReplayBatches : optimize(b)
    \/ \E o \in EpisodeObservations : steps < EpisodeSteps /\ policy(o)
    \/ \E o \in EpisodeObservations : store_transition(o)
    \/ Compass_optimize
    \/ call_Compass_reset

SpecEpisodes == InitEpisodes /\ [][NextEpisodes]_vars

\* ------------------------------------------------------------------ claims
HeadTarget(i, h) == opt.td_target_cat[(h - 1) * Len(opt.batch) + i]

\* C1: in optimize, a batch element whose step_type is LAST gets, in each of the
\* three heads, a TD target equal to its reward, whatever the next state, the
\* target network and gamma are.
C1_TerminalTargetIsReward ==
    \A i \in 1..Len(opt.batch) :
        opt.batch[i].step_type = LAST =>
            \A h \in 1..3 : HeadTarget(i, h) = opt.batch[i].reward

C1_Witness ==
    /\ op = "optimize"
    /\ gamma = BaseGamma
    /\ \E i, j \in 1..Len(opt.batch) :
          /\ opt.batch[i].step_type = LAST
          /\ opt.batch[i].reward = One * One
          /\ HeadTarget(i, 1) = One * One
          /\ opt.batch[j].step_type = MID
          /\ HeadTarget(j, 1) # opt.batch[j].reward

\* C2: in optimize, a batch element whose step_type is not LAST gets, in each
\* head, the TD target reward + gamma * (the largest value the target network,
\* as it is when optimize is called, gives that head on the next state).
C2_NonTerminalTargetBootstraps ==
    [][op' = "optimize" =>
        \A i \in 1..Len(opt'.batch) :
            opt'.batch[i].step_type # LAST =>
                \A h \in 1..3 :
                    opt'.td_target_cat[(h - 1) * Len(opt'.batch) + i] =
                        opt'.batch[i].reward
                        + ((gamma * MaxSeq(Forward(target_net, opt'.batch[i].next_state)[h]))
                              \div One)]_vars

C2_Witness ==
    /\ op = "optimize"
    /\ gamma = BaseGamma
    /\ \E i \in 1..Len(opt.batch) :
          /\ opt.batch[i].step_type = MID
          /\ opt.batch[i].reward = One
          /\ HeadTarget(i, 1) = One + ((BaseGamma * 2 * One) \div One)

\* C3: in every reachable state the target parameters are parameters the online
\* network has had (at construction or later); right after construction the two
\* are equal.
C3_TargetIsSnapshot == target_net \in net_history

\* C4 as claimed: a call of BaseAgent.optimize never changes the target parameters.
C4_OptimizeKeepsTarget ==
    [][(agent = "BaseAgent" /\ op' = "optimize") => target_net' = target_net]_vars

\* C4 as amended: a call of BaseAgent.optimize leaves the target parameters as
\* they were when steps % target_update_period # 0, and ends with them equal to
\* the online parameters its optimizer step produced when
\* steps % target_update_period = 0.
C4_OptimizeSyncsOnCadence ==
    [][(agent = "BaseAgent" /\ op' = "optimize") =>
        IF steps % target_update_period = 0
        THEN target_net' = net'
        ELSE target_net' = target_net]_vars

C4_Witness ==
    /\ agent = "BaseAgent"
    /\ op = "optimize"
    /\ steps % target_update_period # 0
    /\ target_net # net

\* C5: each call of epsilon_greedy (one per choose_action call) sets epsilon to
\* eps_end + (eps_start - eps_end) * exp(-steps_done / eps_decay) for the value
\* steps_done has before the call, and adds 1 to steps_done; nothing else
\* changes epsilon or steps_done.
C5_EpsilonGreedyUpdate ==
    [][IF decisions' # decisions
       THEN /\ epsilon' = eps_end
                          + ((eps_start - eps_end) * ExpNeg(steps_done, eps_decay)) \div EpsOne
            /\ steps_done' = steps_done + 1
       ELSE /\ epsilon' = epsilon
            /\ steps_done' = steps_done]_vars

C5_Witness ==
    /\ steps_done = 2
    /\ epsilon = eps_end + ((eps_start - eps_end) * ExpNeg(1, eps_decay)) \div EpsOne
    /\ epsilon # eps_start

\* C6: steps_done equals the number of decisions made; a call of step or policy
\* on a first or on a last observation, or during a supervised episode, makes
\* no decision and leaves steps_done as it is; no call makes more than one.
C6_StepsDoneCountsDecisions ==
    [][/\ steps_done' = decisions'
       /\ decisions' <= decisions + 1
       /\ (/\ steps' = steps + 1
           /\ \/ obs'.step_type \in {FIRST, LAST}
              \/ (agent = "CompassAgent" /\ episodes < supervised_episodes))
          => (steps_done' = steps_done /\ decisions' = decisions)]_vars

\* C7: with eps_start >= eps_end and eps_decay > 0, the first decision uses
\* epsilon = eps_start, every later decision an epsilon no larger than the
\* decision before it, and no decision an epsilon below eps_end.
C7_EpsilonDecays ==
    [][(eps_start >= eps_end /\ eps_decay > 0 /\ decisions' = decisions + 1) =>
        /\ decisions = 0 => epsilon' = eps_start
        /\ decisions > 0 => epsilon' <= epsilon
        /\ epsilon' >= eps_end]_vars

C7_Witness ==
    /\ eps_start >= eps_end
    /\ eps_decay > 0
    /\ decisions >= 2
    /\ epsilon < eps_start
    /\ epsilon >= eps_end

\* C8: the reward store_transition gets from reward_shaping is 100 if the
\* distance of the previous observation is 0, and otherwise that distance minus
\* the distance of the next observation.
C8_ShapedReward ==
    (op = "store_transition" /\ err # "IndexError") =>
        /\ distance = calculate_distance(feature_screen, feature_screen2).distance
        /\ distance_next =
              calculate_distance(feature_screen_next, feature_screen_next2).distance
        /\ reward_shaped = IF distance = 0 THEN 100 * One ELSE distance - distance_next

\* a transition from distance 5 to the beacon stored with reward 5 - 0, followed
\* by one from distance 0 to distance 3 stored with reward 100
C8_Witness ==
    /\ op = "store_transition"
    /\ err = "none"
    /\ distance = 0
    /\ distance_next = 3 * One
    /\ reward_shaped = 100 * One
    /\ Len(memory) = 2
    /\ memory[1].reward = 5 * One
    /\ memory[2].reward = 100 * One

\* C9: when the marine or the beacon has no pixel on the previous or on the
\* next screen, no exception leaves calculate_distance or reward_shaping and the
\* shaped reward of the transition is 0.
C9_EmptyMeanGivesZeroReward ==
    /\ err # "IndexError"
    /\ (/\ op = "store_transition"
        /\ {} \in {feature_screen, feature_screen2, feature_screen_next, feature_screen_next2})
       => reward_shaped = 0

\* C10: a call of step or policy on the first observation of an episode returns
\* the select-army action and leaves steps_done and epsilon as they are.
C10_FirstObservationSelectsArmy ==
    [][(steps' = steps + 1 /\ obs'.step_type = FIRST) =>
        /\ steps_done' = steps_done
        /\ epsilon' = epsilon
        /\ IF agent = "BaseAgent" THEN ret'.action = <<SelectArmy>>
           ELSE action' = <<SelectArmy>>]_vars

\* C11: when policy handles the last observation of an episode and returns
\* 'reset', the replay buffer's newest transition is the episode's terminal
\* transition: it is there and it is marked with step_type LAST.
C11_TerminalTransitionStored ==
    [][(agent = "CompassAgent" /\ op' = "policy" /\ err' = "none"
            /\ obs'.step_type = LAST) =>
        /\ Len(memory') > 0
        /\ LET t == memory'[Len(memory')]
           IN  /\ "step_type" \in DOMAIN t
               /\ t.step_type = LAST]_vars

C14_IndicesInsideHeads ==
    [][decisions' = decisions + 1 =>
        IF agent = "BaseAgent"
        THEN /\ ret'.action_idx \in 0..(Len(SMART_ACTIONS) - 1)
             /\ ret'.x_coord \in 0..(screen_dim - 1)
             /\ ret'.y_coord \in 0..(screen_dim - 1)
        ELSE /\ err' = "none"
             /\ action_idx' \in 0..(Len(SMART_ACTIONS_SIMPLE_NAVIGATION) - 1)]_vars

\* C15: a store_transition that returns pushes exactly one transition, the one
\* it was called for, and nothing else changes the buffer; the buffer never
\* holds more than its capacity, and it holds the transitions pushed last, in
\* the order they were pushed: after capacity + k pushes its oldest transition
\* is the (k + 1)-th ever pushed.
C15_BufferIsFifo ==
    [][agent = "CompassAgent" =>
        LET n == Len(pushed')
            size == Len(memory')
        IN  /\ IF op' = "store_transition" /\ err' = "none"
               THEN /\ n = Len(pushed) + 1
                    /\ memory'[size] = [state |-> state, action_idx |-> action_idx,
                                        reward |-> reward_shaped', next_state |-> next_state']
               ELSE /\ n = Len(pushed)
                    /\ memory' = memory
            /\ size = IF n <= size_replaybuffer THEN n ELSE size_replaybuffer
            /\ \A j \in 1..size : memory'[j] = pushed'[n - size + j]]_vars

\* three pushes into a buffer of two: the first is gone, the second is the oldest
C15_Witness ==
    /\ agent = "CompassAgent"
    /\ op = "store_transition"
    /\ size_replaybuffer = 2
    /\ Len(pushed) = size_replaybuffer + 1
    /\ Len(memory) = size_replaybuffer
    /\ memory[1] = pushed[2]
    /\ memory[2] = pushed[3]
    /\ pushed[1] # pushed[2]
    /\ pushed[2] # pushed[3]

\* C16: in the CompassAgent steps_done equals the number of policy calls made
\* since construction (the timesteps of the agent's lifetime, which the base
\* class counts in steps).
C16_StepsDoneCountsTimesteps ==
    agent = "CompassAgent" => steps_done = steps

\* C17: in the BaseAgent a call of update_target_net, on its own or at the end
\* of optimize, copies the online parameters into the target exactly when
\* steps % target_update_period = 0, and then adds 1 to update_cnt and sets
\* update_status to "Weights updated!"; otherwise it leaves the target and
\* update_cnt alone and sets update_status to None. reset sets update_cnt to 0
\* and nothing else changes it, so update_cnt is the number of copies made
\* since the last reset.
C17_UpdateCntCountsSyncs ==
    [][agent = "BaseAgent" =>
        IF op' \in {"update_target_net", "optimize"}
        THEN IF steps % target_update_period = 0
             THEN /\ target_net' = net'
                  /\ update_cnt' = update_cnt + 1
                  /\ update_status' = "Weights updated!"
             ELSE /\ target_net' = target_net
                  /\ update_cnt' = update_cnt
                  /\ update_status' = "None"
        ELSE /\ target_net' = target_net
             /\ update_status' = update_status
             /\ update_cnt' = IF op' = "reset" THEN 0 ELSE update_cnt]_vars

\* a copy counted anew after a reset
C17_Witness ==
    /\ agent = "BaseAgent"
    /\ op = "update_target_net"
    /\ episodes = 1
    /\ steps % target_update_period = 0
    /\ update_cnt = 1
    /\ update_status = "Weights updated!"
    /\ target_net = net

\* C18: a call of reset, in either agent, sets timesteps to 0 (and update_cnt
\* to 0 in the BaseAgent) and leaves steps_done, epsilon, the online and the
\* target parameters as they are; the reset that ends policy's last step does
\* the same to timesteps, steps_done, epsilon and the online parameters; and no
\* call of step, policy, store_transition, optimize, update_target_net or reset
\* lowers steps_done.
C18_ResetKeepsLifetimeState ==
    [][/\ op' = "reset" =>
            /\ timesteps' = 0
            /\ agent = "BaseAgent" => update_cnt' = 0
            /\ steps_done' = steps_done
            /\ epsilon' = epsilon
            /\ net' = net
            /\ target_net' = target_net
       /\ (agent = "CompassAgent" /\ op' = "policy" /\ obs'.step_type = LAST
              /\ err' = "none") =>
            /\ timesteps' = 0
            /\ steps_done' = steps_done
            /\ epsilon' = epsilon
            /\ net' = net
       /\ steps_done' >= steps_done]_vars

\* a reset of a BaseAgent that has made two decisions and one copy
C18_Witness ==
    /\ agent = "BaseAgent"
    /\ op = "reset"
    /\ steps_done = 2
    /\ epsilon < eps_start
    /\ timesteps = 0
    /\ update_cnt = 0
    /\ update_status = "Weights updated!"

\* C19: on a mid-episode observation of a supervised episode supervised_action
\* returns an action index: when the marine is away from the beacon, one of
\* left (0), up (1), right (2), down (3) that brings it closer on an axis on
\* which it is off (left iff it is right of the beacon, right iff left of it,
\* up iff below it, down iff above it); when the marine is on the beacon, the
\* index chosen before.
C19_SupervisedHeadsForBeacon ==
    [][(agent = "CompassAgent" /\ op' = "policy" /\ obs'.step_type = MID
            /\ episodes < supervised_episodes /\ err' # "IndexError") =>
        LET rx == marine_center'[1] - beacon_center'[1]
            ry == marine_center'[2] - beacon_center'[2]
        IN  /\ err' = "none"
            /\ IF rx = 0 /\ ry = 0
               THEN action_idx' = action_idx
               ELSE action_idx' \in {i \in 0..3 : \/ (i = 0 /\ rx > 0)
                                                 \/ (i = 1 /\ ry > 0)
                                                 \/ (i = 2 /\ rx < 0)
                                                 \/ (i = 3 /\ ry < 0)}]_vars

\* C20: the action policy returns on a mid-episode observation, which
\* translate_to_PYSC2_action built, is a Move_screen to a point of the screen
\* (x in 0..83, y in 0..63) when Move_screen is available, and no_op when it is
\* not.
C20_TranslatedActionExecutable ==
    [][(agent = "CompassAgent" /\ op' = "policy" /\ obs'.step_type = MID
            /\ err' = "none") =>
        LET a == action'[1]
        IN  IF "Move_screen" \in obs'.available_actions
            THEN /\ a.fn = "Move_screen"
                 /\ a.args[1] \in 0..83
                 /\ a.args[2] \in 0..63
            ELSE a = NoOp]_vars

====
